---------------------------- MODULE Spec2Model ----------------------------
(***************************************************************************)
(* A model of the streaming template engine of the posts                   *)
(* html-streaming-part-1.md and html-streaming-part-2/index.md:            *)
(*   - escape, the html tagged template (generator and compiled/cached),   *)
(*   - the renderers (_render as async generator, _render as coroutine     *)
(*     driven by render/pump with a buffer).                               *)
(*                                                                         *)
(* JavaScript strings are sequences of one-character strings.              *)
(***************************************************************************)
EXTENDS Naturals, Sequences, FiniteSets

VARIABLES
    value,          \* escape harness: the string handed to escape
    escaped,        \* escape harness: what escape returned (None before the call)
    impl,           \* which html the program imports: "generator" (part 1) or
                    \* "compiled" (part 2)
    templateCache,  \* const templateCache = new WeakMap(): call site -> Producer
    compileRuns,    \* history: how many times compile ran for each call site
    gens,           \* the heap of generator objects, in order of creation
    thrown,         \* the error the last call threw to the application ("" if none)
    spread,         \* the result of the last [...template]
    promises,       \* the promises of the program: [state, val]
    mode,           \* the render in use: "none", "async" (part 1), "coroutine" (part 2)
    stream,         \* the ReadableStream: "none", "readable", "closed", "errored",
                    \* "cancelled" (closed by its consumer)
    chunks,         \* every chunk enqueued to the stream's controller, in order
    stack,          \* the _render invocations in progress: the iterator of each
                    \* for..of, innermost last
    buffer,         \* const buffer = [] of render
    awaiting,       \* the value render is awaiting (Undefined if none)
    pumpRuns,       \* history: how many times pump of the buffered render ran
    awaits          \* history: how many times pump reached its await value

vars == <<value, escaped, impl, templateCache, compileRuns, gens, thrown, spread,
          promises, mode, stream, chunks, stack, buffer, awaiting, pumpRuns, awaits>>

appVars    == <<impl, templateCache, compileRuns, gens, thrown, spread>>
renderVars == <<promises, mode, stream, chunks, stack, buffer, awaiting,
                pumpRuns, awaits>>

None == <<"none">>

----------------------------------------------------------------------------
(* Bounds *)

MaxLen == 3

\* html invocations per run
MaxGens == 2

----------------------------------------------------------------------------
(* Strings *)

\* the characters escape knows, a plain letter and the entity terminator
Alphabet == {"&", "<", ">", "\"", "'", "a", ";"}

RECURSIVE StringsOfLen(_)
StringsOfLen(n) ==
    IF n = 0 THEN {<<>>}
    ELSE {<<c>> \o s : c \in Alphabet, s \in StringsOfLen(n - 1)}

StringsUpTo(n) == UNION {StringsOfLen(k) : k \in 0..n}

----------------------------------------------------------------------------
(* escape: html-streaming-part-1.md 113-128 *)

escapeMap(char) ==
    CASE char = "&"  -> <<"&", "a", "m", "p", ";">>
      [] char = "<"  -> <<"&", "l", "t", ";">>
      [] char = ">"  -> <<"&", "g", "t", ";">>
      [] char = "\"" -> <<"&", "q", "u", "o", "t", ";">>
      [] char = "'"  -> <<"&", "#", "3", "9", ";">>

\* /[&<>"']/ : the character class of both regular expressions
htmlEntities == {"&", "<", ">", "\"", "'"}

\* /[&<>"']/.test(value)
test(s) == \E i \in 1..Len(s) : s[i] \in htmlEntities

\* value.replace(htmlEntities, (char) => escapeMap[char]) with the g flag
RECURSIVE replace(_)
replace(s) ==
    IF s = <<>> THEN <<>>
    ELSE (IF Head(s) \in htmlEntities THEN escapeMap(Head(s)) ELSE <<Head(s)>>)
         \o replace(Tail(s))

\* mutant: the guard's character class misses the single quote
escape_noQuoteTest(s) ==
    IF \E i \in 1..Len(s) : s[i] \in (htmlEntities \ {"'"}) THEN replace(s) ELSE s

escape(s) ==
    IF test(s) THEN replace(s) ELSE s

----------------------------------------------------------------------------
(* JavaScript values.  Every value is a record of the same shape:          *)
(*   k      the kind                                                       *)
(*   s      the characters of a string                                     *)
(*   items  the elements of an array                                       *)
(*   id     a number, or the heap index of a generator or promise          *)

Str(s)    == [k |-> "string",    s |-> s,    items |-> <<>>, id |-> 0]
Num(n)    == [k |-> "number",    s |-> <<>>, items |-> <<>>, id |-> n]
Bool(b)   == [k |-> "boolean",   s |-> <<>>, items |-> <<>>, id |-> IF b THEN 1 ELSE 0]
Undefined == [k |-> "undefined", s |-> <<>>, items |-> <<>>, id |-> 0]
Null      == [k |-> "null",      s |-> <<>>, items |-> <<>>, id |-> 0]
Obj       == [k |-> "object",    s |-> <<>>, items |-> <<>>, id |-> 0]
Arr(xs)   == [k |-> "array",     s |-> <<>>, items |-> xs,   id |-> 0]
\* the generator object returned by the g-th html invocation
Gen(g)    == [k |-> "generator", s |-> <<>>, items |-> <<>>, id |-> g]
Promise(p) == [k |-> "promise",  s |-> <<>>, items |-> <<>>, id |-> p]
\* an array that also carries the then of promise p: iterable and thenable
ArrThen(xs, p) == [k |-> "arraythen", s |-> <<>>, items |-> xs, id |-> p]

\* value?.[Symbol.iterator]
hasIterator(v) == v.k \in {"string", "array", "generator", "arraythen"}
\* typeof value === 'string'
isString(v) == v.k = "string"
\* value?.then
hasThen(v) == v.k \in {"promise", "arraythen"}

RECURSIVE digits(_)
digits(n) ==
    IF n < 10
    THEN <<CASE n = 0 -> "0" [] n = 1 -> "1" [] n = 2 -> "2" [] n = 3 -> "3"
             [] n = 4 -> "4" [] n = 5 -> "5" [] n = 6 -> "6" [] n = 7 -> "7"
             [] n = 8 -> "8" [] n = 9 -> "9">>
    ELSE digits(n \div 10) \o digits(n % 10)

\* mutant: undefined and null give the empty string
String_nullishEmpty(v) ==
    CASE v.k = "string"              -> v.s
      [] v.k = "number"              -> digits(v.id)
      [] v.k \in {"undefined", "null"} -> <<>>
      [] OTHER                       -> <<"[", "o", "b", "j", "e", "c", "t", "]">>

\* String(value)
RECURSIVE String(_)
RECURSIVE join(_)
String(v) ==
    CASE v.k = "string"    -> v.s
      [] v.k = "number"    -> digits(v.id)
      [] v.k = "boolean"   -> IF v.id = 1 THEN <<"t", "r", "u", "e">>
                                          ELSE <<"f", "a", "l", "s", "e">>
      [] v.k = "undefined" -> <<"u", "n", "d", "e", "f", "i", "n", "e", "d">>
      [] v.k = "null"      -> <<"n", "u", "l", "l">>
      [] v.k = "object"    -> <<"[", "o", "b", "j", "e", "c", "t", " ",
                                "O", "b", "j", "e", "c", "t", "]">>
      [] v.k = "generator" -> <<"[", "o", "b", "j", "e", "c", "t", " ",
                                "G", "e", "n", "e", "r", "a", "t", "o", "r", "]">>
      [] v.k = "promise"   -> <<"[", "o", "b", "j", "e", "c", "t", " ",
                                "P", "r", "o", "m", "i", "s", "e", "]">>
      [] v.k \in {"array", "arraythen"} -> join(v.items)

\* Array.prototype.join(','): null and undefined elements give the empty string
join(xs) ==
    IF xs = <<>> THEN <<>>
    ELSE LET h == IF Head(xs).k \in {"undefined", "null"} THEN <<>> ELSE String(Head(xs))
         IN  IF Len(xs) = 1 THEN h ELSE h \o <<",">> \o join(Tail(xs))

----------------------------------------------------------------------------
(* Call sites: the templateParts array of each tagged template of the      *)
(* program.  The array instance is the identity the cache is keyed by.     *)

Sites == {"p", "ab", "path", "dir"}

templateParts(site) ==
    CASE site = "p"    -> << <<"<", "p", ">">>, <<"<", "/", "p", ">">> >>
      [] site = "ab"   -> << <<"A">>, <<"&">>, <<"C">> >>
      [] site = "path" -> << <<"c", "\\", "p">> >>
      [] site = "dir"  -> << <<"d", "\\">> >>

\* the number of ${} of a call site
slots(site) == Len(templateParts(site)) - 1

\* const zip = (a, b) => a.map((item, i) => [item, b[i]]): b[i] is undefined
\* beyond b's length
zip(a, b) ==
    [i \in 1..Len(a) |-> <<a[i], IF i <= Len(b) THEN b[i] ELSE Undefined>>]

----------------------------------------------------------------------------
(* Generator bodies.  A body is a sequence of statements:                  *)
(*   yield    yield the concatenation of the terms (template text and      *)
(*            escape(String(arg)))                                         *)
(*   switch   the if / else if / else of the generator html on a value     *)
(*   star     yield* arg                                                   *)
(*   arg      yield arg                                                    *)

Text(s)   == [t |-> "text", s |-> s,    arg |-> 0]
Esc(i)    == [t |-> "esc",  s |-> <<>>, arg |-> i]

Yield(terms) == [op |-> "yield",  terms |-> terms, arg |-> 0]
Switch(i)    == [op |-> "switch", terms |-> <<>>,  arg |-> i]
Star(i)      == [op |-> "star",   terms |-> <<>>,  arg |-> i]
YieldArg(i)  == [op |-> "arg",    terms |-> <<>>,  arg |-> i]

\* mutant: the template part is yielded before the value
RECURSIVE htmlLoop_partFirst(_, _)
htmlLoop_partFirst(tuples, i) ==
    IF i > Len(tuples) THEN <<>>
    ELSE <<Yield(<<Text(tuples[i][1])>>), Switch(i)>> \o htmlLoop_partFirst(tuples, i + 1)

\* function* html(templateParts, ...values): yield first; then per pair of
\* zip(rest, values) the switch on the value and yield templatePart
RECURSIVE htmlLoop(_, _)
htmlLoop(tuples, i) ==
    IF i > Len(tuples) THEN <<>>
    ELSE <<Switch(i), Yield(<<Text(tuples[i][1])>>)>> \o htmlLoop(tuples, i + 1)

\* the generator object of one html`...` invocation, not started:
\*   body, args   the statements and the values they read
\*   nparams      the number of declared parameters arg0.. (a read beyond is a
\*                ReferenceError)
\*   pc           the statement to run at the next next()
\*   sub          the iterator a yield* is delegating to (NoIterator if none)
\*   done         the generator has returned or thrown
\*   yielded      history: every [val, pc] this generator has yielded
NoIterator == [k |-> "none", items |-> <<>>, idx |-> 0, id |-> 0]

GeneratorObject(site, body, args, nparams) ==
    [site |-> site, body |-> body, args |-> args, nparams |-> nparams,
     pc |-> 1, sub |-> NoIterator, done |-> FALSE, yielded |-> <<>>]

\* part 1: function* html(templateParts, ...values)
html(site, values) ==
    LET parts  == templateParts(site)
        first  == Head(parts)
        rest   == Tail(parts)
        tuples == zip(rest, values)
    IN  GeneratorObject(site,
                        <<Yield(<<Text(first)>>)>> \o htmlLoop(tuples, 1),
                        [i \in 1..Len(tuples) |-> tuples[i][2]],
                        Len(tuples))

----------------------------------------------------------------------------
(* The compiled html: html-streaming-part-2/index.md 115-158 *)

\* isAsync is used by buildSource and defined nowhere in the posts: the
\* thenable test of the generator html
isAsync(v) == hasThen(v)

\* buildSource: the source text as its statements; the text of the template
\* parts is pasted between backquotes, unprocessed
RECURSIVE buildSourceReduce(_, _, _)
buildSourceReduce(src, tuples, i) ==
    IF i > Len(tuples) THEN src
    ELSE LET tplPart == tuples[i][1]
             v       == tuples[i][2]
             last    == src[Len(src)]
         IN  buildSourceReduce(
               IF hasIterator(v) /\ ~isString(v)
               THEN src \o <<Star(i), Yield(<<Text(tplPart)>>)>>
               ELSE IF isAsync(v)
               THEN src \o <<YieldArg(i), Yield(<<Text(tplPart)>>)>>
               ELSE [src EXCEPT ![Len(src)] =
                        Yield(last.terms \o <<Esc(i), Text(tplPart)>>)],
               tuples, i + 1)

buildSource(parts, values) ==
    LET first  == Head(parts)
        rest   == Tail(parts)
        tuples == zip(rest, values)
    IN  buildSourceReduce(<<Yield(<<Text(first)>>)>>, tuples, 1)

\* What the parser makes of the text between two backquotes (the cooked
\* value of a template literal).  A backslash starts an escape sequence:
\* \b \f \n \r \t \v are control characters, any other character of the
\* model stands for itself and the backslash is gone.  A backslash that ends
\* the text escapes the closing backquote: the source does not parse.
\* Backquotes and ${ in a template part are outside the model's alphabet.
SyntaxError == <<"SyntaxError">>

RECURSIVE TemplateLiteral(_)
TemplateLiteral(s) ==
    IF s = <<>> THEN <<>>
    ELSE IF Head(s) # "\\"
    THEN LET r == TemplateLiteral(Tail(s))
         IN  IF r = SyntaxError THEN SyntaxError ELSE <<Head(s)>> \o r
    ELSE IF Len(s) = 1 THEN SyntaxError
    ELSE LET c == s[2]
             r == TemplateLiteral(SubSeq(s, 3, Len(s)))
             cooked == IF c \in {"b", "f", "n", "r", "t", "v"}
                       THEN "\\" \o c   \* one control character
                       ELSE c
         IN  IF r = SyntaxError THEN SyntaxError ELSE <<cooked>> \o r

cookTerm(term) ==
    IF term.t = "text" THEN [term EXCEPT !.s = TemplateLiteral(term.s)] ELSE term

cookStatement(st) ==
    [st EXCEPT !.terms = [j \in 1..Len(st.terms) |-> cookTerm(st.terms[j])]]

\* new GeneratorFunction(...args, src): the parsed body; ok is FALSE when the
\* source does not parse (SyntaxError)
GeneratorFunction(src) ==
    IF \E i \in 1..Len(src) : \E j \in 1..Len(src[i].terms) :
           /\ src[i].terms[j].t = "text"
           /\ TemplateLiteral(src[i].terms[j].s) = SyntaxError
    THEN [ok |-> FALSE, body |-> <<>>]
    ELSE [ok |-> TRUE, body |-> [i \in 1..Len(src) |-> cookStatement(src[i])]]

\* compile(templateParts, ...values): the Producer, a generator function of
\* values.length parameters (after utils)
compile(parts, values) ==
    LET src == buildSource(parts, values)
        gen == GeneratorFunction(src)
    IN  [ok |-> gen.ok, body |-> gen.body, nparams |-> Len(values)]

\* no entry of the WeakMap
NoProducer == [ok |-> FALSE, body |-> <<>>, nparams |-> 0]

\* (...values) => gen({ escape }, ...values)
Producer(site, producer, values) ==
    GeneratorObject(site, producer.body, values, producer.nparams)

----------------------------------------------------------------------------
(* Iteration: the iterator protocol over arrays, strings and generators.   *)
(* G is the heap of generator objects.  A step returns                     *)
(*   [done, val, err, G]  (err # "" : the call threw)                      *)

ArrayIterator(xs) == [k |-> "array", items |-> xs, idx |-> 1, id |-> 0]
GeneratorIterator(g) == [k |-> "generator", items |-> <<>>, idx |-> 0, id |-> g]

\* value[Symbol.iterator](): a string iterates its characters, a generator
\* is its own iterator
GetIterator(v) ==
    CASE v.k \in {"array", "arraythen"} -> ArrayIterator(v.items)
      [] v.k = "string"    -> ArrayIterator([i \in 1..Len(v.s) |-> Str(<<v.s[i]>>)])
      [] v.k = "generator" -> GeneratorIterator(v.id)
      [] OTHER             -> NoIterator

Result(done, val, err, G) == [done |-> done, val |-> val, err |-> err, G |-> G]

\* the value of parameter arg_i of a generator object: a missing argument is
\* undefined
argument(o, i) == IF i <= Len(o.args) THEN o.args[i] ELSE Undefined

\* the value of a yield `..` + utils.escape(String(arg)) + `..` expression
RECURSIVE concat(_, _)
concat(o, terms) ==
    IF terms = <<>> THEN <<>>
    ELSE (IF Head(terms).t = "text" THEN Head(terms).s
          ELSE escape(String(argument(o, Head(terms).arg))))
         \o concat(o, Tail(terms))

\* a statement reads a parameter that was never declared
undeclared(o, st) ==
    \/ st.op # "yield" /\ st.arg > o.nparams
    \/ \E j \in 1..Len(st.terms) : st.terms[j].t = "esc" /\ st.terms[j].arg > o.nparams

yields(G, g, v) ==
    [G EXCEPT ![g].yielded = Append(@, [val |-> v, pc |-> G[g].pc])]

RECURSIVE next(_, _)
\* iterator.next()
IteratorNext(G, it) ==
    IF it.k = "array"
    THEN IF it.idx <= Len(it.items)
         THEN [r |-> Result(FALSE, it.items[it.idx], "", G),
               it |-> [it EXCEPT !.idx = @ + 1]]
         ELSE [r |-> Result(TRUE, Undefined, "", G), it |-> it]
    ELSE [r |-> next(G, it.id), it |-> it]

\* generator.next(): run generator g to its next yield
next(G, g) ==
    LET o == G[g] IN
    IF o.done THEN Result(TRUE, Undefined, "", G)
    ELSE IF o.sub.k # "none"
    THEN \* inside yield*: forward to the delegate
         LET n == IteratorNext(G, o.sub) IN
         IF n.r.err # ""
         THEN Result(TRUE, Undefined, n.r.err, [n.r.G EXCEPT ![g].done = TRUE])
         ELSE IF n.r.done
         THEN next([n.r.G EXCEPT ![g].sub = NoIterator, ![g].pc = @ + 1], g)
         ELSE Result(FALSE, n.r.val, "",
                     yields([n.r.G EXCEPT ![g].sub = n.it], g, n.r.val))
    ELSE IF o.pc > Len(o.body)
    THEN Result(TRUE, Undefined, "", [G EXCEPT ![g].done = TRUE])
    ELSE LET st == o.body[o.pc]
             v  == argument(o, st.arg)
             op == IF st.op # "switch" THEN st.op
                   ELSE IF hasIterator(v) /\ ~isString(v) THEN "star"
                   ELSE IF hasThen(v) THEN "arg"
                   ELSE "escape"
         IN
         IF undeclared(o, st)
         THEN Result(TRUE, Undefined, "ReferenceError", [G EXCEPT ![g].done = TRUE])
         ELSE CASE op = "yield" ->
                   Result(FALSE, Str(concat(o, st.terms)), "",
                          [yields(G, g, Str(concat(o, st.terms))) EXCEPT ![g].pc = @ + 1])
                [] op = "escape" ->
                   Result(FALSE, Str(escape(String(v))), "",
                          [yields(G, g, Str(escape(String(v)))) EXCEPT ![g].pc = @ + 1])
                [] op = "arg" ->
                   Result(FALSE, v, "", [yields(G, g, v) EXCEPT ![g].pc = @ + 1])
                [] op = "star" ->
                   IF GetIterator(v).k = "none"
                   THEN Result(TRUE, Undefined, "TypeError", [G EXCEPT ![g].done = TRUE])
                   ELSE next([G EXCEPT ![g].sub = GetIterator(v)], g)

----------------------------------------------------------------------------
(* The escape harness: one call of escape on a string *)

Idle ==
    /\ impl = "generator"
    /\ templateCache = [site \in Sites |-> NoProducer]
    /\ compileRuns = [site \in Sites |-> 0]
    /\ gens = <<>>
    /\ thrown = ""
    /\ spread = [of |-> 0, items |-> <<>>, err |-> ""]
    /\ promises = [p \in 1..2 |-> [state |-> "pending", val |-> Undefined]]
    /\ mode = "none"
    /\ stream = "none"
    /\ chunks = <<>>
    /\ stack = <<>>
    /\ buffer = <<>>
    /\ awaiting = Undefined
    /\ pumpRuns = 0
    /\ awaits = 0

InitEscape ==
    /\ value \in StringsUpTo(MaxLen)
    /\ escaped = None
    /\ Idle

Escape ==
    /\ escaped = None
    /\ escaped' = escape(value)
    /\ UNCHANGED <<value, appVars, renderVars>>

NextEscape == Escape

SpecEscape == InitEscape /\ [][NextEscape]_vars

----------------------------------------------------------------------------
(* The application: it calls html at its call sites and consumes templates *)

\* the values the application interpolates, besides templates
Literals ==
    {Str(<<"<">>), Num(42), Bool(TRUE), Undefined, Null, Obj}

Interpolated ==
    Literals
    \cup {Arr(<<Str(<<"<">>), Str(<<"a">>)>>), Promise(1), ArrThen(<<Str(<<"a">>)>>, 1)}
    \cup {Gen(g) : g \in 1..Len(gens)}

\* the one-slot call site sees every kind of value, the two-slot call site
\* a literal, a promise or a template at each slot
InterpolatedAt(site) ==
    IF slots(site) = 1 THEN Interpolated
    ELSE {Str(<<"<">>), Promise(2)} \cup {Gen(g) : g \in 1..Len(gens)}

Arguments(site) ==
    IF slots(site) = 0 THEN {<<>>}
    ELSE IF slots(site) = 1 THEN {<<v>> : v \in InterpolatedAt(site)}
    ELSE {<<v, w>> : v \in InterpolatedAt(site), w \in InterpolatedAt(site)}

\* html called as a function, html(templateParts, ...values), with too few
\* or too many values for the call site
Miscounted(site) ==
    IF site = "p" THEN {<<>>, <<Str(<<"<">>), Str(<<"a">>)>>} ELSE {}

\* mutant: html traverses the templates among its values when it is called
CallHtml_eager(site, values) ==
    /\ impl = "generator"
    /\ Len(gens) < MaxGens
    /\ gens' = Append([g \in 1..Len(gens) |->
                          IF \E i \in 1..Len(values) : values[i] = Gen(g)
                          THEN [gens[g] EXCEPT !.done = TRUE] ELSE gens[g]],
                      html(site, values))
    /\ thrown' = ""
    /\ UNCHANGED <<value, escaped, impl, templateCache, compileRuns, spread, renderVars>>

\* html`...` with the generator of part 1
CallHtml(site, values) ==
    /\ impl = "generator"
    /\ Len(gens) < MaxGens
    /\ gens' = Append(gens, html(site, values))
    /\ thrown' = ""
    /\ UNCHANGED <<value, escaped, impl, templateCache, compileRuns, spread, renderVars>>

\* mutant: html compiles and caches at every call
CallCompiledHtml_recompiling(site, values) ==
    /\ impl = "compiled"
    /\ Len(gens) < MaxGens
    /\ compileRuns[site] < MaxGens
    /\ compileRuns' = [compileRuns EXCEPT ![site] = @ + 1]
    /\ LET producer == compile(templateParts(site), values)
       IN  IF ~producer.ok
           THEN /\ thrown' = "SyntaxError"
                /\ UNCHANGED <<templateCache, gens>>
           ELSE /\ templateCache' = [templateCache EXCEPT ![site] = producer]
                /\ gens' = Append(gens, Producer(site, producer, values))
                /\ thrown' = ""
    /\ UNCHANGED <<value, escaped, impl, spread, renderVars>>

\* html`...` with the cached, compiled html of part 2
CallCompiledHtml(site, values) ==
    /\ impl = "compiled"
    /\ Len(gens) < MaxGens
    /\ compileRuns[site] < MaxGens
    /\ compileRuns' = IF templateCache[site] = NoProducer
                      THEN [compileRuns EXCEPT ![site] = @ + 1]
                      ELSE compileRuns
    /\ LET producer == IF templateCache[site] = NoProducer
                       THEN compile(templateParts(site), values)
                       ELSE templateCache[site]
       IN  IF ~producer.ok
           THEN \* compile threw: nothing is cached, nothing is returned
                /\ thrown' = "SyntaxError"
                /\ UNCHANGED <<templateCache, gens>>
           ELSE /\ templateCache' = [templateCache EXCEPT ![site] = producer]
                /\ gens' = Append(gens, Producer(site, producer, values))
                /\ thrown' = ""
    /\ UNCHANGED <<value, escaped, impl, spread, renderVars>>

\* [...template]: next() until done, collecting the values
RECURSIVE spreadLoop(_, _, _)
spreadLoop(G, g, items) ==
    LET r == next(G, g) IN
    IF r.err # "" THEN [items |-> items, err |-> r.err, G |-> r.G]
    ELSE IF r.done THEN [items |-> items, err |-> "", G |-> r.G]
    ELSE spreadLoop(r.G, g, Append(items, r.val))

\* mutant: spreading a template leaves it as it was, to be traversed again
Spread_preserving(g) ==
    /\ spread.of = 0
    /\ LET r == spreadLoop(gens, g, <<>>)
       IN  /\ gens' = gens
           /\ spread' = [of |-> g, items |-> r.items, err |-> r.err]
           /\ thrown' = r.err
    /\ UNCHANGED <<value, escaped, impl, templateCache, compileRuns, renderVars>>

Spread(g) ==
    /\ spread.of = 0
    /\ LET r == spreadLoop(gens, g, <<>>)
       IN  /\ gens' = r.G
           /\ spread' = [of |-> g, items |-> r.items, err |-> r.err]
           /\ thrown' = r.err
    /\ UNCHANGED <<value, escaped, impl, templateCache, compileRuns, renderVars>>

----------------------------------------------------------------------------
(* The renderers.  S = [stack, G, buffer] is the state a _render routine   *)
(* runs on; a run ends in an outcome                                       *)
(*   [kind, val, err, S]   kind: "yield" (val), "return", "throw" (err)    *)

Outcome(kind, val, err, S) == [kind |-> kind, val |-> val, err |-> err, S |-> S]

Throw(err, S) == Outcome("throw", Undefined, err, [S EXCEPT !.stack = <<>>])

\* function* _render(template, controller) of part 2, the coroutine:
\* run until it yields a thenable, returns or throws
RECURSIVE _render(_)

\* _render(v, controller) entered: for (const chunk of v)
forOf(S, v) ==
    IF GetIterator(v).k = "none" THEN Throw("TypeError", S)
    ELSE _render([S EXCEPT !.stack = Append(@, GetIterator(v))])

\* mutant: an unsupported chunk is stringified and enqueued
_render_stringifying(S) ==
    IF S.stack = <<>> THEN Outcome("return", Undefined, "", S)
    ELSE LET top   == Len(S.stack)
             n     == IteratorNext(S.G, S.stack[top])
             S1    == [S EXCEPT !.G = n.r.G, !.stack[top] = n.it]
             chunk == n.r.val
         IN  IF n.r.err # "" THEN Throw(n.r.err, S1)
             ELSE IF n.r.done
             THEN _render([S1 EXCEPT !.stack = SubSeq(@, 1, top - 1)])
             ELSE IF isString(chunk)
             THEN _render([S1 EXCEPT !.buffer = Append(@, chunk.s)])
             ELSE IF hasIterator(chunk)
             THEN forOf(S1, chunk)
             ELSE IF hasThen(chunk)
             THEN Outcome("yield", chunk, "", S1)
             ELSE _render([S1 EXCEPT !.buffer = Append(@, String(chunk))])

\* mutant: a string chunk is escaped again before it is enqueued
_render_escaping(S) ==
    IF S.stack = <<>> THEN Outcome("return", Undefined, "", S)
    ELSE LET top   == Len(S.stack)
             n     == IteratorNext(S.G, S.stack[top])
             S1    == [S EXCEPT !.G = n.r.G, !.stack[top] = n.it]
             chunk == n.r.val
         IN  IF n.r.err # "" THEN Throw(n.r.err, S1)
             ELSE IF n.r.done
             THEN _render([S1 EXCEPT !.stack = SubSeq(@, 1, top - 1)])
             ELSE IF isString(chunk)
             THEN _render([S1 EXCEPT !.buffer = Append(@, escape(chunk.s))])
             ELSE IF hasIterator(chunk)
             THEN forOf(S1, chunk)
             ELSE IF hasThen(chunk)
             THEN Outcome("yield", chunk, "", S1)
             ELSE Throw("Unsupported chunk", S1)

\* mutant: a thenable is yielded before it is looked at as an iterable
_render_thenFirst(S) ==
    IF S.stack = <<>> THEN Outcome("return", Undefined, "", S)
    ELSE LET top   == Len(S.stack)
             n     == IteratorNext(S.G, S.stack[top])
             S1    == [S EXCEPT !.G = n.r.G, !.stack[top] = n.it]
             chunk == n.r.val
         IN  IF n.r.err # "" THEN Throw(n.r.err, S1)
             ELSE IF n.r.done
             THEN _render([S1 EXCEPT !.stack = SubSeq(@, 1, top - 1)])
             ELSE IF isString(chunk)
             THEN _render([S1 EXCEPT !.buffer = Append(@, chunk.s)])
             ELSE IF hasThen(chunk)
             THEN Outcome("yield", chunk, "", S1)
             ELSE IF hasIterator(chunk)
             THEN forOf(S1, chunk)
             ELSE Throw("Unsupported chunk", S1)

_render(S) ==
    IF S.stack = <<>> THEN Outcome("return", Undefined, "", S)
    ELSE LET top   == Len(S.stack)
             n     == IteratorNext(S.G, S.stack[top])
             S1    == [S EXCEPT !.G = n.r.G, !.stack[top] = n.it]
             chunk == n.r.val
         IN  IF n.r.err # "" THEN Throw(n.r.err, S1)
             ELSE IF n.r.done
             THEN _render([S1 EXCEPT !.stack = SubSeq(@, 1, top - 1)])
             ELSE IF isString(chunk)
             THEN _render([S1 EXCEPT !.buffer = Append(@, chunk.s)])  \* controller.enqueue(chunk)
             ELSE IF hasIterator(chunk)
             THEN forOf(S1, chunk)                                    \* yield* _render(chunk, controller)
             ELSE IF hasThen(chunk)
             THEN Outcome("yield", chunk, "", S1)                     \* const resolved = yield chunk
             ELSE Throw("Unsupported chunk", S1)

\* mutant: the resolved value is dropped
resumed_dropped(S, resolved) == _render(S)

\* mutant: a resolved value that cannot be iterated is stringified
resumed_stringifying(S, resolved) ==
    IF isString(resolved)
    THEN _render([S EXCEPT !.buffer = Append(@, resolved.s)])
    ELSE IF GetIterator(resolved).k = "none"
    THEN _render([S EXCEPT !.buffer = Append(@, String(resolved))])
    ELSE forOf(S, resolved)

\* the coroutine resumed with the resolved value
resumed(S, resolved) ==
    IF isString(resolved)
    THEN _render([S EXCEPT !.buffer = Append(@, resolved.s)])
    ELSE forOf(S, resolved)

\* async function* _render(template) of part 1: run until it yields a
\* string, awaits a thenable, returns or throws
RECURSIVE _renderAsync(_)

forOfAsync(S, v) ==
    IF GetIterator(v).k = "none" THEN Throw("TypeError", S)
    ELSE _renderAsync([S EXCEPT !.stack = Append(@, GetIterator(v))])

_renderAsync(S) ==
    IF S.stack = <<>> THEN Outcome("return", Undefined, "", S)
    ELSE LET top   == Len(S.stack)
             n     == IteratorNext(S.G, S.stack[top])
             S1    == [S EXCEPT !.G = n.r.G, !.stack[top] = n.it]
             chunk == n.r.val
         IN  IF n.r.err # "" THEN Throw(n.r.err, S1)
             ELSE IF n.r.done
             THEN _renderAsync([S1 EXCEPT !.stack = SubSeq(@, 1, top - 1)])
             ELSE IF isString(chunk)
             THEN Outcome("yield", chunk, "", S1)                     \* yield chunk
             ELSE IF hasThen(chunk)
             THEN Outcome("await", chunk, "", S1)                     \* await chunk
             ELSE IF hasIterator(chunk)
             THEN forOfAsync(S1, chunk)                               \* yield* _render(chunk)
             ELSE Throw("Unsupported chunk", S1)

\* buffer.join('')
RECURSIVE joined(_)
joined(strings) ==
    IF strings = <<>> THEN <<>> ELSE Head(strings) \o joined(Tail(strings))

\* mutant: every buffered string is enqueued before the ones already sent
flushed_prepend(queue, buf) ==
    IF buf # <<>> THEN <<joined(buf)>> \o queue ELSE queue

\* mutant: the buffer is enqueued also when it is empty
flushed_always(queue, buf) == Append(queue, joined(buf))

\* mutant: every buffered string is enqueued on its own
flushed_each(queue, buf) == queue \o buf

\* if (buffer.length) controller.enqueue(buffer.join(''))
flushed(queue, buf) ==
    IF buf # <<>> THEN Append(queue, joined(buf)) ELSE queue

\* mutant: a throw of the coroutine is caught and the stream closed
pump_closingOnThrow(o) ==
    /\ gens' = o.S.G
    /\ stack' = o.S.stack
    /\ buffer' = o.S.buffer
    /\ chunks' = IF o.kind = "throw" \/ stream = "cancelled" THEN chunks
                 ELSE flushed(chunks, o.S.buffer)
    /\ awaiting' = IF o.kind = "yield" THEN o.val ELSE Undefined
    /\ stream' = IF stream = "cancelled" THEN "cancelled"
                 ELSE IF o.kind = "yield" THEN "readable" ELSE "closed"
    /\ thrown' = IF o.kind = "throw" THEN o.err ELSE ""
    /\ pumpRuns' = pumpRuns + 1
    /\ awaits' = IF awaiting' # Undefined THEN awaits + 1 ELSE awaits

\* mutant: at the end pump closes the stream without enqueueing the buffer
pump_closingUnflushed(o) ==
    /\ gens' = o.S.G
    /\ stack' = o.S.stack
    /\ buffer' = o.S.buffer
    /\ chunks' = IF o.kind = "yield" /\ stream # "cancelled"
                 THEN flushed(chunks, o.S.buffer) ELSE chunks
    /\ awaiting' = IF o.kind = "yield" /\ (stream # "cancelled" \/ o.S.buffer = <<>>)
                   THEN o.val ELSE Undefined
    /\ stream' = IF stream = "cancelled" THEN "cancelled"
                 ELSE IF o.kind = "yield" THEN "readable"
                 ELSE IF o.kind = "return" THEN "closed" ELSE "errored"
    /\ thrown' = IF o.kind = "throw" THEN o.err ELSE ""
    /\ pumpRuns' = pumpRuns + 1
    /\ awaits' = IF awaiting' # Undefined THEN awaits + 1 ELSE awaits

\* mutant: a throw of the coroutine is caught, the buffer enqueued and the
\* stream errored
pump_flushingOnThrow(o) ==
    /\ gens' = o.S.G
    /\ stack' = o.S.stack
    /\ buffer' = o.S.buffer
    /\ chunks' = IF stream = "cancelled" THEN chunks ELSE flushed(chunks, o.S.buffer)
    /\ awaiting' = IF o.kind = "yield" /\ (stream # "cancelled" \/ o.S.buffer = <<>>)
                   THEN o.val ELSE Undefined
    /\ stream' = IF stream = "cancelled" THEN "cancelled"
                 ELSE IF o.kind = "yield" THEN "readable"
                 ELSE IF o.kind = "return" THEN "closed" ELSE "errored"
    /\ thrown' = IF o.kind = "throw" THEN o.err ELSE ""
    /\ pumpRuns' = pumpRuns + 1
    /\ awaits' = IF awaiting' # Undefined THEN awaits + 1 ELSE awaits

\* pump, after const { value } = iterable.next(chunk) ended in outcome o.
\* On a stream its consumer has cancelled, controller.enqueue and
\* controller.close throw a TypeError and an error changes nothing.
pump(o) ==
    /\ gens' = o.S.G
    /\ stack' = o.S.stack
    /\ buffer' = o.S.buffer
    /\ CASE stream = "cancelled" ->
              /\ chunks' = chunks
              /\ stream' = "cancelled"
              /\ IF o.kind = "yield" /\ o.S.buffer = <<>>
                 THEN awaiting' = o.val /\ thrown' = ""
                 ELSE /\ awaiting' = Undefined
                      /\ thrown' = IF o.kind = "throw" THEN o.err ELSE "TypeError"
         [] stream # "cancelled" /\ o.kind = "yield" ->
              /\ chunks' = flushed(chunks, o.S.buffer)
              /\ awaiting' = o.val          \* await value
              /\ stream' = "readable"
              /\ thrown' = ""
         [] stream # "cancelled" /\ o.kind = "return" ->
              /\ chunks' = flushed(chunks, o.S.buffer)
              /\ awaiting' = Undefined
              /\ stream' = "closed"         \* controller.close()
              /\ thrown' = ""
         [] stream # "cancelled" /\ o.kind = "throw" ->
              \* pump rejects, and so does start: the stream is errored
              /\ chunks' = chunks
              /\ awaiting' = Undefined
              /\ stream' = "errored"
              /\ thrown' = o.err
    /\ pumpRuns' = pumpRuns + 1
    /\ awaits' = IF awaiting' # Undefined THEN awaits + 1 ELSE awaits

\* render(template) of part 2: new ReadableStream({ start }) runs start, and
\* start runs pump() to its first await
render(g) ==
    /\ mode = "none"
    /\ mode' = "coroutine"
    /\ pump(forOf([stack |-> <<>>, G |-> gens, buffer |-> <<>>], Gen(g)))
    /\ UNCHANGED <<value, escaped, impl, templateCache, compileRuns, spread, promises>>

\* the promise the awaited thenable stands for
promiseOf(v) == promises[v.id]

\* mutant: pump goes on with the value of the promise without awaiting it
PumpResumed_unawaited ==
    /\ mode = "coroutine"
    /\ stream \in {"readable", "cancelled"}
    /\ awaiting # Undefined
    /\ promiseOf(awaiting).state \in {"pending", "fulfilled"}
    /\ pump(resumed([stack |-> stack, G |-> gens, buffer |-> <<>>],
                    promiseOf(awaiting).val))
    /\ UNCHANGED <<value, escaped, impl, templateCache, compileRuns, spread, promises, mode>>

\* mutant: pump does not empty the buffer after the await
PumpResumed_unreset ==
    /\ mode = "coroutine"
    /\ stream \in {"readable", "cancelled"}
    /\ awaiting # Undefined
    /\ promiseOf(awaiting).state = "fulfilled"
    /\ pump(resumed([stack |-> stack, G |-> gens, buffer |-> buffer],
                    promiseOf(awaiting).val))
    /\ UNCHANGED <<value, escaped, impl, templateCache, compileRuns, spread, promises, mode>>

\* mutant: after the await, pump empties the buffer and returns
PumpResumed_returning ==
    /\ mode = "coroutine"
    /\ stream \in {"readable", "cancelled"}
    /\ awaiting # Undefined
    /\ promiseOf(awaiting).state = "fulfilled"
    /\ awaiting' = Undefined
    /\ buffer' = <<>>
    /\ UNCHANGED <<value, escaped, appVars, promises, mode, stream, chunks, stack,
                   pumpRuns, awaits>>

\* pump after await value: buffer.length = 0; return pump(asyncChunk)
PumpResumed ==
    /\ mode = "coroutine"
    /\ stream \in {"readable", "cancelled"}
    /\ awaiting # Undefined
    /\ promiseOf(awaiting).state = "fulfilled"
    /\ pump(resumed([stack |-> stack, G |-> gens, buffer |-> <<>>],
                    promiseOf(awaiting).val))
    /\ UNCHANGED <<value, escaped, impl, templateCache, compileRuns, spread, promises, mode>>

\* mutant: the rejection is caught and the buffer enqueued before the stream
\* is errored
PumpRejected_reflushing ==
    /\ mode = "coroutine"
    /\ stream \in {"readable", "cancelled"}
    /\ awaiting # Undefined
    /\ promiseOf(awaiting).state = "rejected"
    /\ stream' = IF stream = "cancelled" THEN "cancelled" ELSE "errored"
    /\ awaiting' = Undefined
    /\ stack' = <<>>
    /\ thrown' = "rejected"
    /\ chunks' = IF stream = "cancelled" THEN chunks ELSE flushed(chunks, buffer)
    /\ UNCHANGED <<value, escaped, impl, templateCache, compileRuns, gens, spread, promises,
                   mode, buffer, pumpRuns, awaits>>

\* mutant: the failure empties what was sent
PumpRejected_resetting ==
    /\ mode = "coroutine"
    /\ stream \in {"readable", "cancelled"}
    /\ awaiting # Undefined
    /\ promiseOf(awaiting).state = "rejected"
    /\ stream' = IF stream = "cancelled" THEN "cancelled" ELSE "errored"
    /\ awaiting' = Undefined
    /\ stack' = <<>>
    /\ thrown' = "rejected"
    /\ chunks' = <<>>
    /\ UNCHANGED <<value, escaped, impl, templateCache, compileRuns, gens, spread, promises,
                   mode, buffer, pumpRuns, awaits>>

\* mutant: the rejection is caught, the stream errored, and pump waits for
\* the same promise and runs again
PumpRejected_retrying ==
    /\ mode = "coroutine"
    /\ stream \in {"readable", "cancelled", "errored"}
    /\ awaiting # Undefined
    /\ promiseOf(awaiting).state = "rejected"
    /\ pumpRuns < 4
    /\ stream' = IF stream = "cancelled" THEN "cancelled" ELSE "errored"
    /\ stack' = <<>>
    /\ thrown' = "rejected"
    /\ pumpRuns' = pumpRuns + 1
    /\ UNCHANGED <<value, escaped, impl, templateCache, compileRuns, gens, spread, promises,
                   mode, chunks, buffer, awaiting, awaits>>

\* await value throws: pump rejects, the stream is errored (a cancelled
\* stream stays as it is)
PumpRejected ==
    /\ mode = "coroutine"
    /\ stream \in {"readable", "cancelled"}
    /\ awaiting # Undefined
    /\ promiseOf(awaiting).state = "rejected"
    /\ stream' = IF stream = "cancelled" THEN "cancelled" ELSE "errored"
    /\ awaiting' = Undefined
    /\ stack' = <<>>
    /\ thrown' = "rejected"
    /\ UNCHANGED <<value, escaped, impl, templateCache, compileRuns, gens, spread, promises,
                   mode, chunks, buffer, pumpRuns, awaits>>

\* the consumer of the stream render returned cancels it: the underlying
\* source has no cancel method, the stream is closed for its controller
Cancel ==
    /\ mode = "coroutine"
    /\ stream = "readable"
    /\ stream' = "cancelled"
    /\ UNCHANGED <<value, escaped, appVars, promises, mode, chunks, stack,
                   buffer, awaiting, pumpRuns, awaits>>

\* one pull of ReadableStream.from(_render(template)), after the next() of
\* the async generator ended in outcome o
pull(o) ==
    /\ gens' = o.S.G
    /\ stack' = o.S.stack
    /\ buffer' = buffer
    /\ UNCHANGED <<pumpRuns, awaits>>
    /\ CASE o.kind = "yield" ->
              /\ chunks' = Append(chunks, o.val.s)
              /\ awaiting' = Undefined
              /\ stream' = "readable"
              /\ thrown' = ""
         [] o.kind = "await" ->
              /\ chunks' = chunks
              /\ awaiting' = o.val
              /\ stream' = "readable"
              /\ thrown' = ""
         [] o.kind = "return" ->
              /\ chunks' = chunks
              /\ awaiting' = Undefined
              /\ stream' = "closed"
              /\ thrown' = ""
         [] o.kind = "throw" ->
              /\ chunks' = chunks
              /\ awaiting' = Undefined
              /\ stream' = "errored"
              /\ thrown' = o.err

\* render(template) of part 1: ReadableStream.from(_render(template)); the
\* first pull starts the generator
renderAsync(g) ==
    /\ mode = "none"
    /\ mode' = "async"
    /\ pull(forOfAsync([stack |-> <<>>, G |-> gens, buffer |-> <<>>], Gen(g)))
    /\ UNCHANGED <<value, escaped, impl, templateCache, compileRuns, spread, promises>>

\* a further pull: the generator goes on to its next yield
Pull ==
    /\ mode = "async"
    /\ stream = "readable"
    /\ awaiting = Undefined
    /\ pull(_renderAsync([stack |-> stack, G |-> gens, buffer |-> <<>>]))
    /\ UNCHANGED <<value, escaped, impl, templateCache, compileRuns, spread, promises, mode>>

\* yield* _render(await chunk) once the awaited value is there
PullResumed ==
    /\ mode = "async"
    /\ stream = "readable"
    /\ awaiting # Undefined
    /\ promiseOf(awaiting).state = "fulfilled"
    /\ pull(forOfAsync([stack |-> stack, G |-> gens, buffer |-> <<>>],
                       promiseOf(awaiting).val))
    /\ UNCHANGED <<value, escaped, impl, templateCache, compileRuns, spread, promises, mode>>

PullRejected ==
    /\ mode = "async"
    /\ stream = "readable"
    /\ awaiting # Undefined
    /\ promiseOf(awaiting).state = "rejected"
    /\ stream' = "errored"
    /\ awaiting' = Undefined
    /\ stack' = <<>>
    /\ thrown' = "rejected"
    /\ UNCHANGED <<value, escaped, impl, templateCache, compileRuns, gens, spread, promises,
                   mode, chunks, buffer, pumpRuns, awaits>>

\* promise p is the one the render awaits, or the one that promise follows
Awaited(p) ==
    \/ awaiting.id = p
    \/ /\ awaiting.id \in 1..Len(promises)
       /\ hasThen(promises[awaiting.id].val)
       /\ promises[awaiting.id].val.id = p

\* a render is in progress
InProgress == stream \in {"readable", "cancelled"}

\* the buffered render has signalled completion or failure to its stream
Over == mode = "coroutine" /\ stream \in {"closed", "errored"}

\* the buffered render has failed: Deferreds it never reached may be left
Failed == mode = "coroutine" /\ stream = "errored"

\* the environment resolves a promise while the program renders, and after
\* the buffered render has failed; the render of part 1 looks at a promise
\* only while it awaits it, and its promises are settled then. A promise resolved with a thenable stays pending and follows
\* the thenable.
Fulfill(p, v) ==
    /\ InProgress \/ Failed
    /\ mode = "async" => Awaited(p)
    /\ promises[p] = [state |-> "pending", val |-> Undefined]
    /\ promises' = [promises EXCEPT ![p] =
                       IF hasThen(v) THEN [state |-> "pending", val |-> v]
                       ELSE [state |-> "fulfilled", val |-> v]]
    /\ UNCHANGED <<value, escaped, appVars, mode, stream, chunks, stack, buffer, awaiting,
                   pumpRuns, awaits>>

Reject(p) ==
    /\ InProgress \/ Failed
    /\ mode = "async" => Awaited(p)
    /\ promises[p] = [state |-> "pending", val |-> Undefined]
    /\ promises' = [promises EXCEPT ![p] = [state |-> "rejected", val |-> Undefined]]
    /\ UNCHANGED <<value, escaped, appVars, mode, stream, chunks, stack, buffer, awaiting,
                   pumpRuns, awaits>>

\* a promise that follows a thenable is settled as the thenable is
Adopt(p) ==
    /\ promises[p].state = "pending"
    /\ hasThen(promises[p].val)
    /\ promises[promises[p].val.id].state \in {"fulfilled", "rejected"}
    /\ promises' = [promises EXCEPT ![p] = promises[promises[p].val.id]]
    /\ UNCHANGED <<value, escaped, appVars, mode, stream, chunks, stack, buffer, awaiting,
                   pumpRuns, awaits>>

\* the program before its first call; it imports one of the two html
InitApp ==
    /\ value = <<>>
    /\ escaped = None
    /\ impl \in {"generator", "compiled"}
    /\ templateCache = [site \in Sites |-> NoProducer]
    /\ compileRuns = [site \in Sites |-> 0]
    /\ gens = <<>>
    /\ thrown = ""
    /\ spread = [of |-> 0, items |-> <<>>, err |-> ""]
    /\ promises = [p \in 1..2 |-> [state |-> "pending", val |-> Undefined]]
    /\ mode = "none"
    /\ stream = "none"
    /\ chunks = <<>>
    /\ stack = <<>>
    /\ buffer = <<>>
    /\ awaiting = Undefined
    /\ pumpRuns = 0
    /\ awaits = 0

InitHtml == InitApp

NextHtml ==
    \/ \E site \in Sites : \E values \in Arguments(site) : CallHtml(site, values)
    \/ \E site \in Sites : \E values \in Arguments(site) : CallCompiledHtml(site, values)
    \/ \E site \in Sites : \E values \in Miscounted(site) : CallCompiledHtml(site, values)
    \/ \E g \in 1..Len(gens) : Spread(g)

SpecHtml == InitHtml /\ [][NextHtml]_vars

----------------------------------------------------------------------------
(* The program that renders: it builds templates and renders the last one  *)

\* what the rendering program interpolates at its one-slot call site
Rendered ==
    {Str(<<"<">>), Promise(1), Arr(<<Str(<<"<">>), Str(<<"a">>)>>),
     Arr(<<Promise(2), Str(<<"'">>)>>), Arr(<<ArrThen(<<Str(<<"a">>)>>, 1)>>),
     Arr(<<Str(<<"a">>), Num(42)>>)}
    \cup {Gen(g) : g \in 1..Len(gens)}

\* the call sites of the rendering program
RenderSites == {"p", "ab", "path"}

RenderArguments(site) ==
    IF slots(site) = 0 THEN {<<>>}
    ELSE IF slots(site) = 1 THEN {<<v>> : v \in Rendered}
    ELSE {<<v, w>> : v \in InterpolatedAt(site), w \in InterpolatedAt(site)}

\* what a promise of the program is fulfilled with
Fulfilments(p) ==
    IF p = 1 THEN {Arr(<<Promise(2), Str(<<"x">>)>>), Undefined, Promise(2)}
    ELSE {Str(<<">">>), Num(42)}

Init == InitApp

Next ==
    \/ \E site \in RenderSites : \E values \in RenderArguments(site) :
          mode = "none" /\ CallHtml(site, values)
    \/ \E site \in RenderSites : \E values \in RenderArguments(site) :
          mode = "none" /\ CallCompiledHtml(site, values)
    \/ gens # <<>> /\ render(Len(gens))
    \/ PumpResumed
    \/ PumpRejected
    \/ Cancel
    \/ gens # <<>> /\ renderAsync(Len(gens))
    \/ Pull
    \/ PullResumed
    \/ PullRejected
    \/ \E p \in 1..Len(promises) : \E v \in Fulfilments(p) : Fulfill(p, v)
    \/ \E p \in 1..Len(promises) : Reject(p)
    \/ \E p \in 1..Len(promises) : Adopt(p)

Spec == Init /\ [][Next]_vars

----------------------------------------------------------------------------
(* C1 *)

\* the entity, if any, that starts at the head of s
EntityAt(s) ==
    {c \in htmlEntities :
        /\ Len(s) >= Len(escapeMap(c))
        /\ SubSeq(s, 1, Len(escapeMap(c))) = escapeMap(c)}

\* reading an escaped text back: each entity gives its character
RECURSIVE Decode(_)
Decode(s) ==
    IF s = <<>> THEN <<>>
    ELSE IF EntityAt(s) # {}
         THEN LET c == CHOOSE c \in EntityAt(s) : TRUE
              IN  <<c>> \o Decode(SubSeq(s, Len(escapeMap(c)) + 1, Len(s)))
         ELSE <<Head(s)>> \o Decode(Tail(s))

\* no raw < > " ' and every & starts an entity
NoRawEntityChar(s) ==
    \A i \in 1..Len(s) :
        /\ s[i] \notin {"<", ">", "\"", "'"}
        /\ s[i] = "&" => EntityAt(SubSeq(s, i, Len(s))) # {}

\* C1: escape(v) is v with each of & < > " ' replaced by its entity and every
\* other character unchanged: the result holds no raw occurrence of the five
\* characters, reads back to v entity by entity, and is v itself when v holds
\* none of the five characters.
C1_EscapeReplacesExactly ==
    escaped # None =>
        /\ NoRawEntityChar(escaped)
        /\ Decode(escaped) = value
        /\ (\A i \in 1..Len(value) : value[i] \notin htmlEntities) => escaped = value

C1_Witness ==
    /\ escaped # None
    /\ \E i \in 1..Len(value) : value[i] = "'"
    /\ \E i \in 1..Len(value) : value[i] = "a"
    /\ escaped # value

----------------------------------------------------------------------------
(* What a traversal must give, read off the templates' parts and values    *)

\* the template rendered: the latest html invocation
root == Len(gens)

\* the strings of xs joined
RECURSIVE stringify(_)
stringify(xs) ==
    IF xs = <<>> THEN <<>> ELSE Head(xs).s \o stringify(Tail(xs))

AllStrings(xs) == \A i \in 1..Len(xs) : isString(xs[i])

IsPrefix(s, u) == Len(s) <= Len(u) /\ SubSeq(u, 1, Len(s)) = s

IsSuffix(s, u) == Len(s) <= Len(u) /\ SubSeq(u, Len(u) - Len(s) + 1, Len(u)) = s

\* a value html treats as a literal: neither iterable nor thenable
IsLiteral(v) == v.k \in {"number", "boolean", "undefined", "null", "object"}

\* S[0], V[0], S[1], V[1], ..., S[n]
RECURSIVE Interleave(_, _)
Interleave(parts, values) ==
    IF values = <<>> THEN <<Str(Head(parts))>>
    ELSE <<Str(Head(parts)), Head(values)>> \o Interleave(Tail(parts), Tail(values))

----------------------------------------------------------------------------
(* C2 *)

\* C2: a string interpolated directly shows escaped at its slot of the
\* rendered output; the strings of an interpolated array show unescaped, in
\* array order.
C2_DirectEscapedArrayRaw ==
    (stream = "closed" /\ slots(gens[root].site) = 1) =>
        LET parts == templateParts(gens[root].site)
            v     == gens[root].args[1]
        IN  /\ isString(v) =>
                 joined(chunks) = parts[1] \o escape(v.s) \o parts[2]
            /\ (v.k = "array" /\ AllStrings(v.items)) =>
                 joined(chunks) = parts[1] \o stringify(v.items) \o parts[2]

----------------------------------------------------------------------------
(* C3 *)

\* C3: every rendered text starts with the first static segment and ends
\* with the last one, character for character; a template without values
\* renders as its one segment.
C3_StaticSegmentsVerbatim ==
    stream = "closed" =>
        LET parts == templateParts(gens[root].site)
        IN  /\ IsPrefix(parts[1], joined(chunks))
            /\ IsSuffix(parts[Len(parts)], joined(chunks))
            /\ Len(parts) = 1 => joined(chunks) = parts[1]

----------------------------------------------------------------------------
(* C4 *)

\* The fragments a full traversal of the template of invocation g gives,
\* by the contract: S[0], f(V[0]), S[1], ..., S[n] with f by the kind of the
\* value.  used: the generators traversed before (a generator gives its
\* fragments once).
RECURSIVE Sequence(_, _)
RECURSIVE SequenceFrom(_, _, _)
Sequence(g, used) ==
    IF g \in used THEN [out |-> <<>>, used |-> used]
    ELSE SequenceFrom(g, 1, [out  |-> <<Str(templateParts(gens[g].site)[1])>>,
                             used |-> used \cup {g}])

SequenceFrom(g, i, acc) ==
    IF i > slots(gens[g].site) THEN acc
    ELSE LET v == gens[g].args[i]
             f == IF v.k = "generator" THEN Sequence(v.id, acc.used)
                  ELSE IF hasIterator(v) /\ ~isString(v)
                  THEN [out |-> v.items, used |-> acc.used]
                  ELSE IF hasThen(v) THEN [out |-> <<v>>, used |-> acc.used]
                  ELSE [out |-> <<Str(escape(String(v)))>>, used |-> acc.used]
         IN  SequenceFrom(g, i + 1,
                 [out  |-> acc.out \o f.out \o <<Str(templateParts(gens[g].site)[i + 1])>>,
                  used |-> f.used])

\* C4: the traversal of the generator html's result gives S[0], f(V[0]),
\* S[1], ..., S[n] in declaration order, nothing reordered, duplicated or
\* dropped.
C4_DeclarationOrder ==
    (impl = "generator" /\ spread.of # 0) =>
        /\ spread.err = ""
        /\ spread.items = Sequence(spread.of, {}).out

C4_Witness ==
    /\ impl = "generator"
    /\ spread.of # 0
    /\ slots(gens[spread.of].site) = 2
    /\ gens[spread.of].args[1].k = "generator"
    /\ gens[spread.of].args[2].k = "promise"
    /\ Len(spread.items) = 7

----------------------------------------------------------------------------
(* C5 *)

\* String() of the literals, written out
LiteralText(v) ==
    CASE v = Num(42)     -> <<"4", "2">>
      [] v = Bool(TRUE)  -> <<"t", "r", "u", "e">>
      [] v = Undefined   -> <<"u", "n", "d", "e", "f", "i", "n", "e", "d">>
      [] v = Null        -> <<"n", "u", "l", "l">>
      [] v = Obj         -> <<"[", "o", "b", "j", "e", "c", "t", " ",
                              "O", "b", "j", "e", "c", "t", "]">>

\* what generator g yielded from its i-th ${}
YieldedAt(g, i) ==
    SelectSeq(gens[g].yielded, LAMBDA e : gens[g].body[e.pc].arg = i)

\* C5: a value that is neither iterable nor thenable gives exactly one
\* fragment at its slot, the escaped String() of the value, and the
\* traversal does not throw.
C5_LiteralsStringified ==
    impl = "generator" =>
        /\ spread.err = ""
        /\ \A g \in 1..Len(gens) : \A i \in 1..slots(gens[g].site) :
               (gens[g].done /\ IsLiteral(gens[g].args[i])) =>
                   /\ Len(YieldedAt(g, i)) = 1
                   /\ YieldedAt(g, i)[1].val = Str(escape(LiteralText(gens[g].args[i])))

C5_Witness ==
    /\ impl = "generator"
    /\ spread.of # 0
    /\ gens[spread.of].args = <<Undefined>>
    /\ spread.items = <<Str(<<"<", "p", ">">>),
                        Str(<<"u", "n", "d", "e", "f", "i", "n", "e", "d">>),
                        Str(<<"<", "/", "p", ">">>)>>

----------------------------------------------------------------------------
(* C6 *)

\* C6: a thenable value is yielded itself, once, between the two
\* neighbouring static segments.
C6_ThenableYieldedItself ==
    (/\ spread.of # 0
     /\ gens[spread.of].args # <<>>
     /\ \A i \in 1..Len(gens[spread.of].args) :
            hasThen(gens[spread.of].args[i]) /\ ~hasIterator(gens[spread.of].args[i]))
    =>  /\ spread.err = ""
        /\ spread.items = Interleave(templateParts(gens[spread.of].site),
                                     gens[spread.of].args)

----------------------------------------------------------------------------
(* C7 *)

\* C7: a value that is both iterable and thenable is traversed as a
\* Sequence wherever it is classified: no renderer ever awaits it.
C7_IterableNeverAwaited ==
    awaiting # Undefined => ~hasIterator(awaiting)

----------------------------------------------------------------------------
(* C8 *)

\* the template of invocation g is made of direct strings and of templates
\* that are made so
RECURSIVE Nested(_)
Nested(g) ==
    \A i \in 1..Len(gens[g].args) :
        \/ isString(gens[g].args[i])
        \/ gens[g].args[i].k = "generator" /\ Nested(gens[g].args[i].id)

\* the text of the template of invocation g with the text of each inner
\* template written in its place (a template gives its text once)
RECURSIVE Inlined(_, _)
RECURSIVE InlinedFrom(_, _, _)
Inlined(g, used) ==
    IF g \in used THEN [out |-> <<>>, used |-> used]
    ELSE InlinedFrom(g, 1, [out  |-> templateParts(gens[g].site)[1],
                            used |-> used \cup {g}])

InlinedFrom(g, i, acc) ==
    IF i > Len(gens[g].args) THEN acc
    ELSE LET v == gens[g].args[i]
             inner == IF v.k = "generator" THEN Inlined(v.id, acc.used)
                      ELSE [out |-> escape(v.s), used |-> acc.used]
         IN  InlinedFrom(g, i + 1,
                 [out  |-> acc.out \o inner.out \o templateParts(gens[g].site)[i + 1],
                  used |-> inner.used])

\* C8: rendering a template that interpolates templates gives the text of
\* the outer template with the rendered text of each inner template at its
\* slot, escaped once.
C8_NestingInlined ==
    (/\ impl = "generator"
     /\ mode = "coroutine"
     /\ Nested(root)
     /\ \E i \in 1..Len(gens[root].args) : gens[root].args[i].k = "generator")
    =>  /\ stream = "closed"
        /\ joined(chunks) = Inlined(root, {}).out

C8_Witness ==
    /\ impl = "generator"
    /\ mode = "coroutine"
    /\ stream = "closed"
    /\ root = 2
    /\ gens[2].site = "p" /\ gens[2].args = <<Gen(1)>>
    /\ gens[1].site = "p" /\ gens[1].args = <<Str(<<"<">>)>>
    /\ joined(chunks) = <<"<", "p", ">", "<", "p", ">", "&", "l", "t", ";",
                          "<", "/", "p", ">", "<", "/", "p", ">">>

----------------------------------------------------------------------------
(* C9, C10 *)

\* The depth-first, left-to-right text of the fragment tree of a value, read
\* with the contents the Deferreds have now:
\*   out    the text so far
\*   used   the generators traversed so far
\*   stop   the first Deferred that is not fulfilled (Undefined if none)
\*   err    the walk fails before stop: a rejected Deferred, an
\*          unsupported fragment, a value that cannot be iterated
\*   bad    <<x>> when the failure is the unsupported fragment x
\*   n      the Deferreds met so far
\*   dry    those of them met with no string since the previous one
\*   fresh  a string was met since the last Deferred
\*   unfit  <<v>> when the failure is the content v of a Deferred, neither
\*          a string nor an iterable
\*   limit  the walk stops at its limit-th Deferred, fulfilled or not (0: it
\*          stops at no fulfilled Deferred)
Walked(out, used) ==
    [out |-> out, used |-> used, stop |-> Undefined, err |-> FALSE,
     bad |-> <<>>, n |-> 0, dry |-> 0, fresh |-> FALSE, unfit |-> <<>>,
     limit |-> 0]

Blocked(acc) == acc.stop # Undefined \/ acc.err

Emit(acc, s) ==
    IF Blocked(acc) THEN acc ELSE [acc EXCEPT !.out = @ \o s, !.fresh = TRUE]

\* a Deferred is met
Met(acc) ==
    [acc EXCEPT !.n = @ + 1, !.dry = IF acc.fresh THEN @ ELSE @ + 1,
                !.fresh = FALSE]

Unsupported(acc, x) ==
    IF Blocked(acc) THEN acc ELSE [acc EXCEPT !.err = TRUE, !.bad = <<x>>]

Fail(acc) == IF Blocked(acc) THEN acc ELSE [acc EXCEPT !.err = TRUE]

Unfit(acc, v) ==
    IF Blocked(acc) THEN acc ELSE [acc EXCEPT !.err = TRUE, !.unfit = <<v>>]

\* the string a yield statement of invocation g gives
RECURSIVE TermsText(_, _)
TermsText(g, terms) ==
    IF terms = <<>> THEN <<>>
    ELSE (IF Head(terms).t = "text" THEN Head(terms).s
          ELSE IF Head(terms).arg > Len(gens[g].args) THEN String(Undefined)
          ELSE escape(String(gens[g].args[Head(terms).arg])))
         \o TermsText(g, Tail(terms))

RECURSIVE Traverse(_, _)
RECURSIVE Statements(_, _, _)
RECURSIVE Fragments(_, _, _)
RECURSIVE Fragment(_, _)

\* a fragment that is an iterable: its elements, in order
Traverse(v, acc) ==
    IF Blocked(acc) THEN acc
    ELSE CASE v.k = "generator" ->
                IF v.id \in acc.used THEN acc
                ELSE Statements(v.id, 1, [acc EXCEPT !.used = @ \cup {v.id}])
           [] v.k \in {"array", "arraythen"} -> Fragments(v.items, 1, acc)
           [] v.k = "string" ->
                Fragments([i \in 1..Len(v.s) |-> Str(<<v.s[i]>>)], 1, acc)
           [] OTHER -> Fail(acc)

\* the fragments of the body of invocation g from statement pc on
Statements(g, pc, acc) ==
    IF Blocked(acc) \/ pc > Len(gens[g].body) THEN acc
    ELSE LET st == gens[g].body[pc]
             v  == IF st.arg \in 1..Len(gens[g].args) THEN gens[g].args[st.arg]
                   ELSE Undefined
             a  == CASE st.op = "yield" -> Emit(acc, TermsText(g, st.terms))
                     [] st.op = "star"  -> Traverse(v, acc)
                     [] st.op = "arg"   -> Fragment(v, acc)
                     [] st.op = "switch" ->
                          IF hasIterator(v) /\ ~isString(v) THEN Traverse(v, acc)
                          ELSE IF hasThen(v) THEN Fragment(v, acc)
                          ELSE Emit(acc, escape(String(v)))
         IN  Statements(g, pc + 1, a)

Fragments(xs, i, acc) ==
    IF i > Len(xs) THEN acc ELSE Fragments(xs, i + 1, Fragment(xs[i], acc))

\* one fragment: a string is text, an iterable is its elements, a Deferred
\* is its content
Fragment(x, acc) ==
    IF Blocked(acc) THEN acc
    ELSE IF isString(x) THEN Emit(acc, x.s)
    ELSE IF hasIterator(x) THEN Traverse(x, acc)
    ELSE IF hasThen(x)
    THEN CASE Met(acc).n = acc.limit             -> [Met(acc) EXCEPT !.stop = x]
           [] promises[x.id].state = "pending"   -> [Met(acc) EXCEPT !.stop = x]
           [] promises[x.id].state = "rejected"  -> Fail(Met(acc))
           [] promises[x.id].state = "fulfilled" ->
                IF isString(promises[x.id].val)
                THEN Emit(Met(acc), promises[x.id].val.s)
                ELSE IF ~hasIterator(promises[x.id].val)
                THEN Unfit(Met(acc), promises[x.id].val)
                ELSE Traverse(promises[x.id].val, Met(acc))
    ELSE Unsupported(acc, x)

\* the walk of the rendered template
Walk == Traverse(Gen(root), Walked(<<>>, {}))

\* C9: the chunks sent to the sink follow the depth-first, left-to-right
\* order of the fragment tree, and nothing that follows a Deferred is sent
\* before the content of the Deferred, whatever the order in which the
\* Deferreds are fulfilled.
C9_DepthFirstOrder ==
    (mode = "coroutine" /\ stream \in {"readable", "closed"}) =>
        /\ IsPrefix(joined(chunks), Walk.out)
        /\ (awaiting # Undefined /\ promiseOf(awaiting).state = "pending") =>
               /\ Walk.stop = awaiting
               /\ joined(chunks) = Walk.out

C9_Witness ==
    /\ mode = "coroutine"
    /\ stream = "readable"
    /\ awaiting = Promise(1)
    /\ promises[1].state = "pending"
    /\ promises[2].state = "fulfilled"
    /\ gens[root].args = <<Gen(1), Promise(2)>>
    /\ gens[1].args = <<Promise(1)>>
    /\ chunks # <<>>

\* C10: the total text a completed render has sent is the text of the
\* fragment tree with the contents of its Deferreds, whenever and in
\* whatever order they were fulfilled.
C10_Deterministic ==
    (mode = "coroutine" /\ stream = "closed") =>
        /\ ~Blocked(Walk)
        /\ joined(chunks) = Walk.out

C10_Witness ==
    /\ mode = "coroutine"
    /\ stream = "closed"
    /\ gens[root].args = <<Gen(1), Promise(2)>>
    /\ gens[1].args = <<Promise(1)>>
    /\ Len(chunks) >= 3

----------------------------------------------------------------------------
(* C11 *)

\* C11 as stated: a completed render has sent 1 + the number of Deferreds
\* met chunks.
C11_OnePlusDeferreds ==
    (mode = "coroutine" /\ stream = "closed") => Len(chunks) = 1 + Walk.n

\* C11, amended: a completed render has sent one chunk for each Deferred met
\* with a string buffered since the previous one, and one at completion when
\* a string was buffered since the last Deferred; never more than 1 + the
\* number of Deferreds met.
C11_OnePerNonEmptyFlush ==
    (mode = "coroutine" /\ stream = "closed") =>
        /\ Len(chunks) = (Walk.n - Walk.dry) + (IF Walk.fresh THEN 1 ELSE 0)
        /\ Len(chunks) <= 1 + Walk.n

C11_Witness ==
    /\ mode = "coroutine"
    /\ stream = "closed"
    /\ gens[root].site = "p"
    /\ gens[root].args = <<Promise(1)>>
    /\ Walk.n = 2 /\ Walk.dry = 1
    /\ Len(chunks) = 2

----------------------------------------------------------------------------
(* C12 *)

\* C12: when the next thing in the depth-first order of the tree is a
\* fragment that is neither a string, an iterable nor a thenable, the render
\* does not complete, sends nothing of that fragment, and once it has come
\* to it has failed with the error Unsupported chunk.
C12_UnsupportedFails ==
    (mode = "coroutine" /\ stream # "cancelled" /\ Walk.bad # <<>>) =>
        /\ stream # "closed"
        /\ IsPrefix(joined(chunks), Walk.out)
        /\ awaiting = Undefined =>
               /\ stream = "errored"
               /\ thrown = "Unsupported chunk"

C12_Witness ==
    /\ mode = "coroutine"
    /\ stream = "errored"
    /\ thrown = "Unsupported chunk"
    /\ gens[root].args = <<Arr(<<Str(<<"a">>), Num(42)>>)>>
    /\ Walk.bad = <<Num(42)>>
    /\ chunks = <<>>

----------------------------------------------------------------------------
(* C13 *)

\* C13: a render that has failed has left the stream errored, and a stream
\* that was closed is the stream of a render that met no failure (the
\* consumer has not cancelled).
C13_FailedNeverClosed ==
    mode = "coroutine" =>
        /\ (thrown # "" /\ stream # "cancelled") => stream = "errored"
        /\ stream = "closed" => (thrown = "" /\ ~Walk.err)
        /\ (Walk.err /\ awaiting = Undefined /\ stream # "cancelled") =>
               stream = "errored"

C13_Witness ==
    /\ mode = "coroutine"
    /\ stream = "errored"
    /\ thrown = "Unsupported chunk"
    /\ Walk.err
    /\ buffer # <<>>

----------------------------------------------------------------------------
(* C14 *)

\* C14: when the Deferred the renderer waits for rejects, the stream is
\* errored, the coroutine is never resumed, and what has been sent is, and
\* stays, exactly the text that precedes the Deferred.
C14_RejectionFailsInPlace ==
    (mode = "coroutine" /\ thrown = "rejected" /\ stream # "cancelled") =>
        /\ stream = "errored"
        /\ awaiting = Undefined
        /\ stack = <<>>
        /\ Walk.err /\ Walk.bad = <<>>
        /\ joined(chunks) = Walk.out

C14_Witness ==
    /\ mode = "coroutine"
    /\ stream = "errored"
    /\ thrown = "rejected"
    /\ promises[1].state = "rejected"
    /\ promises[2].state = "fulfilled"
    /\ Len(chunks) = 2

----------------------------------------------------------------------------
(* C15 *)

\* C15: once the consumer has cancelled the stream, the renderer pulls no
\* further fragment from the template, waits for no further Deferred and
\* sends nothing more.
C15_CancelStopsRenderer ==
    [][(mode = "coroutine" /\ stream = "cancelled") =>
           /\ gens' = gens
           /\ chunks' = chunks
           /\ (awaiting' = awaiting \/ awaiting' = Undefined)]_vars

----------------------------------------------------------------------------
(* C16 *)

\* C16: over any sequence of html invocations compile runs at most once for
\* each call site, and never for a call site that has its Producer cached.
C16_CompiledOnce ==
    \A site \in Sites :
        /\ compileRuns[site] <= 1
        /\ templateCache[site] # NoProducer => compileRuns[site] = 1

----------------------------------------------------------------------------
(* C17 *)

\* the kind of a value, by the contract
KindOf(v) ==
    IF hasIterator(v) /\ ~isString(v) THEN "sequence"
    ELSE IF hasThen(v) THEN "deferred"
    ELSE "literal"

\* how the body of invocation g handles the value of its i-th slot
Handling(g, i) ==
    LET body == gens[g].body IN
    IF \E k \in 1..Len(body) : body[k].op = "switch" /\ body[k].arg = i
    THEN KindOf(gens[g].args[i])
    ELSE IF \E k \in 1..Len(body) : body[k].op = "star" /\ body[k].arg = i
    THEN "sequence"
    ELSE IF \E k \in 1..Len(body) : body[k].op = "arg" /\ body[k].arg = i
    THEN "deferred"
    ELSE "literal"

\* C17: every invocation handles each slot by the kind of the value it was
\* given itself, whatever values the invocation that compiled the call site
\* had.
C17_HandlingFromOwnValues ==
    \A g \in 1..Len(gens) :
        \A i \in 1..Len(gens[g].args) :
            i <= slots(gens[g].site) => Handling(g, i) = KindOf(gens[g].args[i])

----------------------------------------------------------------------------
(* C18 *)

\* the fused string fragments of a template: each maximal run of static
\* segments and escaped literal values, in order
RECURSIVE FusedRuns(_, _, _, _)
FusedRuns(parts, values, i, runs) ==
    IF i > Len(values) THEN runs
    ELSE IF KindOf(values[i]) = "literal"
    THEN FusedRuns(parts, values, i + 1,
                   [runs EXCEPT ![Len(runs)] =
                       @ \o escape(String(values[i])) \o parts[i + 1]])
    ELSE FusedRuns(parts, values, i + 1, Append(runs, parts[i + 1]))

\* the strings invocation g yielded from its own yield statements
OwnStrings(g) ==
    LET own == SelectSeq(gens[g].yielded,
                         LAMBDA e : gens[g].body[e.pc].op = "yield")
    IN  [k \in 1..Len(own) |-> own[k].val.s]

\* C18: a compiled Producer yields itself one string for each maximal run
\* of static segments and escaped literal values (1 + the number of slots
\* holding a Sequence or a Deferred), each the concatenation of its run.
C18_FusedRuns ==
    (/\ impl = "compiled"
     /\ spread.of # 0
     /\ spread.err = ""
     /\ Len(gens[spread.of].args) = slots(gens[spread.of].site))
    =>  LET g == spread.of
            n == Cardinality({i \in 1..Len(gens[g].args) :
                                 KindOf(gens[g].args[i]) # "literal"})
        IN  /\ Len(OwnStrings(g)) = 1 + n
            /\ OwnStrings(g) =
                   FusedRuns(templateParts(gens[g].site), gens[g].args, 1,
                             <<templateParts(gens[g].site)[1]>>)

----------------------------------------------------------------------------
(* C19 *)

\* C19: an invocation with a number of values that is not the number of
\* slots of its call site ends in an error and gives no output.
C19_MiscountRaises ==
    (spread.of # 0 /\ Len(gens[spread.of].args) # slots(gens[spread.of].site))
    =>  /\ spread.err # ""
        /\ spread.items = <<>>

----------------------------------------------------------------------------
(* C20 *)

\* the text of a template whose values are Deferreds fulfilled with strings,
\* each string escaped
RECURSIVE EscapedOnResolution(_, _, _)
EscapedOnResolution(parts, values, i) ==
    IF i > Len(values) THEN <<>>
    ELSE escape(promises[values[i].id].val.s) \o parts[i + 1]
         \o EscapedOnResolution(parts, values, i + 1)

\* C20: a Deferred that resolves to a string is sent HTML-escaped, once.
C20_ResolvedStringEscaped ==
    (/\ mode = "coroutine"
     /\ stream = "closed"
     /\ gens[root].args # <<>>
     /\ Len(gens[root].args) = slots(gens[root].site)
     /\ \A i \in 1..Len(gens[root].args) :
            /\ gens[root].args[i].k = "promise"
            /\ isString(promises[gens[root].args[i].id].val))
    =>  joined(chunks) =
            templateParts(gens[root].site)[1]
            \o EscapedOnResolution(templateParts(gens[root].site), gens[root].args, 1)


----------------------------------------------------------------------------
(* The buffered renderer under the scheduling of its platform: the         *)
(* continuation of `await value` is a job of the microtask queue, which    *)
(* runs once the awaited promise is settled; and every promise of the      *)
(* program is settled at some time                                         *)

\* the steps of PumpResumed, told by its guard and the count of pump runs
Resumption ==
    /\ mode = "coroutine"
    /\ stream \in {"readable", "cancelled"}
    /\ awaiting # Undefined
    /\ promiseOf(awaiting).state = "fulfilled"
    /\ pumpRuns' = pumpRuns + 1

\* the steps of PumpRejected
Rejection ==
    /\ mode = "coroutine"
    /\ stream \in {"readable", "cancelled"}
    /\ awaiting # Undefined
    /\ promiseOf(awaiting).state = "rejected"
    /\ awaiting' = Undefined

Settle(p) == (\E v \in Fulfilments(p) : Fulfill(p, v)) \/ Reject(p) \/ Adopt(p)

\* the program that renders with the buffered render of part 2, its
\* consumer reading the stream to the end
NextLive ==
    \/ \E site \in RenderSites : \E values \in RenderArguments(site) :
          mode = "none" /\ CallHtml(site, values)
    \/ \E site \in RenderSites : \E values \in RenderArguments(site) :
          mode = "none" /\ CallCompiledHtml(site, values)
    \/ gens # <<>> /\ render(Len(gens))
    \/ PumpResumed
    \/ PumpRejected
    \/ \E p \in 1..Len(promises) : \E v \in Fulfilments(p) : Fulfill(p, v)
    \/ \E p \in 1..Len(promises) : Reject(p)
    \/ \E p \in 1..Len(promises) : Adopt(p)

SpecLive ==
    /\ Init /\ [][NextLive]_vars
    /\ WF_pumpRuns(Resumption) /\ WF_awaiting(Rejection)
    /\ \A p \in 1..2 : WF_vars(Settle(p))

\* the render is done: the stream is closed and was given the whole text
Done ==
    /\ stream = "closed"
    /\ awaiting = Undefined
    /\ joined(chunks) = Walk.out

\* C21: a started render eventually is done, unless its tree shows a
\* fragment the traversal fails on (an unsupported fragment, a Deferred that
\* is rejected instead of fulfilled)
C21_EventuallyDone ==
    (mode = "coroutine") ~> (mode = "coroutine" /\ (Done \/ Walk.err))

\* a render that suspended twice and is done
C21_Witness ==
    /\ mode = "coroutine"
    /\ Done
    /\ Walk.n >= 2
    /\ Len(chunks) >= 2

----------------------------------------------------------------------------
(* C22 *)

\* the walk of the rendered template up to its k-th Deferred
WalkTo(k) == Traverse(Gen(root), [Walked(<<>>, {}) EXCEPT !.limit = k])

\* C22: whenever the renderer is suspended on a Deferred, the chunks sent are
\* the text of everything that precedes this Deferred in depth-first order,
\* and the strings buffered since the previous flush were sent as one chunk:
\* one chunk per Deferred met with strings buffered, the last of them the
\* join of the buffer.
C22_FlushedAtSuspension ==
    (mode = "coroutine" /\ stream = "readable" /\ awaiting # Undefined) =>
        LET W == WalkTo(awaits)
        IN  /\ W.stop = awaiting /\ ~W.err
            /\ joined(chunks) = W.out
            /\ Len(chunks) = W.n - W.dry
            /\ buffer # <<>> =>
                  /\ chunks # <<>>
                  /\ chunks[Len(chunks)] = joined(buffer)

\* suspended on the second Deferred met, which was fulfilled before the
\* renderer reached it, with several strings buffered since the first
C22_Witness ==
    /\ mode = "coroutine"
    /\ stream = "readable"
    /\ awaits = 2
    /\ awaiting # Undefined
    /\ promiseOf(awaiting).state = "fulfilled"
    /\ Len(buffer) >= 2
    /\ Len(chunks) = 2

----------------------------------------------------------------------------
(* C23 *)

\* a closed stream of the buffered render: the traversal is over, one run of
\* pump and no more reached the end, what was buffered last is the last
\* chunk, and the chunks are the whole text of the tree
ClosedComplete ==
    (mode = "coroutine" /\ stream = "closed") =>
        /\ awaiting = Undefined /\ stack = <<>> /\ thrown = ""
        /\ pumpRuns = awaits + 1
        /\ buffer # <<>> => (chunks # <<>> /\ chunks[Len(chunks)] = joined(buffer))
        /\ ~Blocked(Walk)
        /\ joined(chunks) = Walk.out

\* C23: on a successful render completion is signalled once, after the last
\* chunk: when the stream is closed no buffered text is undelivered and the
\* chunks are the full depth-first text of the tree, and from then on the
\* stream stays closed and is given no further chunk.
C23_ClosedOnceAfterLastChunk ==
    /\ []ClosedComplete
    /\ [][(mode = "coroutine" /\ stream = "closed") =>
              (stream' = "closed" /\ chunks' = chunks /\ pumpRuns' = pumpRuns)]_vars

\* a closed stream whose last chunk was enqueued by the run of pump that
\* closed it, after two suspensions
C23_Witness ==
    /\ mode = "coroutine"
    /\ stream = "closed"
    /\ awaits = 2
    /\ buffer # <<>>
    /\ Len(chunks) = 3

----------------------------------------------------------------------------
(* C24 *)

\* C24: when an unsupported fragment has aborted the render, the stream was
\* given the text up to the last Deferred the renderer suspended on and no
\* more: the strings buffered since are the rest of the text that precedes
\* the unsupported fragment, and they were not sent.
C24_BufferDiscardedOnAbort ==
    (mode = "coroutine" /\ stream = "errored" /\ thrown = "Unsupported chunk") =>
        /\ Walk.bad # <<>>
        /\ Walk.n = awaits
        /\ Len(chunks) = awaits - Walk.dry
        /\ joined(chunks) = IF awaits = 0 THEN <<>> ELSE WalkTo(awaits).out
        /\ joined(chunks) \o joined(buffer) = Walk.out

\* the render failed after a flush, with strings buffered since
C24_Witness ==
    /\ mode = "coroutine"
    /\ stream = "errored"
    /\ thrown = "Unsupported chunk"
    /\ awaits >= 1
    /\ chunks # <<>>
    /\ Len(buffer) >= 2

----------------------------------------------------------------------------
(* C25 *)

\* no template of the program holds the array that is a thenable too, which
\* the two renders read differently
Plain ==
    \A g \in 1..Len(gens) : \A i \in 1..Len(gens[g].args) :
        /\ gens[g].args[i].k # "arraythen"
        /\ \A j \in 1..Len(gens[g].args[i].items) :
               gens[g].args[i].items[j].k # "arraythen"

\* C25: when the content of a Deferred is neither a string nor an iterable,
\* the render fails: the stream is never closed, what it is given is text
\* that precedes the Deferred, never the content stringified, and once the
\* renderer has read the content the stream is errored.
C25_UnfitResolutionFails ==
    /\ (mode = "coroutine" /\ stream # "cancelled" /\ Walk.unfit # <<>>) =>
           /\ stream # "closed"
           /\ IsPrefix(joined(chunks), Walk.out)
           /\ awaiting = Undefined =>
                  /\ stream = "errored"
                  /\ thrown = "TypeError"
                  /\ joined(chunks) \o joined(buffer) = Walk.out
    /\ (mode = "async" /\ Plain /\ Walk.unfit # <<>>) =>
           /\ stream # "closed"
           /\ IsPrefix(joined(chunks), Walk.out)
           /\ stream = "errored" => thrown = "TypeError"

\* the buffered render failed on a Deferred resolved to 42, after the text
\* before it was sent
C25_Witness ==
    /\ mode = "coroutine"
    /\ stream = "errored"
    /\ thrown = "TypeError"
    /\ Walk.unfit = <<Num(42)>>
    /\ chunks # <<>>
    /\ promises[2].val = Num(42)

----------------------------------------------------------------------------
(* C26 *)

\* the text a resolved value starts with: the string itself, or the text of
\* the iterable up to its first Deferred
Lead(v) ==
    IF isString(v) THEN v.s
    ELSE Traverse(v, [Walked(<<>>, {}) EXCEPT !.limit = 1]).out

\* the depth-first text of the tree up to the place of the renderer: the
\* Deferred it is suspended on, or the end
Ahead == IF stream = "closed" THEN Walk.out ELSE WalkTo(awaits).out

\* wherever the renderer is suspended or done, what was sent is the text up
\* to its place, with the contents of the Deferreds passed in their places
SentAhead ==
    (mode = "coroutine" /\ (stream = "closed" \/ (stream = "readable" /\ awaiting # Undefined)))
        => joined(chunks) = Ahead

\* C26: when the renderer is resumed from its suspension on a Deferred, the
\* value it gets is no Deferred (a Deferred resolved with a Deferred keeps
\* the renderer suspended until the last of them has a content), the text
\* sent next starts with the content at the place of the Deferred, a string
\* as it is and an iterable traversed, and what is sent up to the next
\* suspension or the end is the depth-first text of the tree with the
\* content in the place of the Deferred.
C26_ResumedInPlace ==
    /\ []SentAhead
    /\ [][ ( /\ mode = "coroutine" /\ stream = "readable" /\ awaiting # Undefined
             /\ pumpRuns' = pumpRuns + 1
             /\ stream' \in {"readable", "closed"} ) =>
           ( /\ ~hasThen(promiseOf(awaiting).val)
             /\ IsPrefix(joined(chunks) \o Lead(promiseOf(awaiting).val),
                         joined(chunks')) ) ]_vars

\* a render done whose Deferred was resolved with a second Deferred, the
\* content of which is in the place of the first
C26_Witness ==
    /\ mode = "coroutine"
    /\ stream = "closed"
    /\ gens[root].site = "p"
    /\ gens[root].args = <<Promise(1)>>
    /\ promises[1] = [state |-> "fulfilled", val |-> Str(<<">">>)]
    /\ awaits = 1
    /\ joined(chunks) = <<"<", "p", ">", ">", "<", "/", "p", ">">>

----------------------------------------------------------------------------
(* C27 *)

\* C27: the renderer suspends once at each Deferred it meets and nowhere
\* else. While it is suspended every run of pump so far ended in a
\* suspension, on the Deferreds of the tree in their order; when the render
\* is done, having met N Deferreds, it has suspended N times and pump has run
\* N + 1 times; when it has failed it has suspended on the Deferreds that
\* precede the failure, and pump ran once more unless the failure is the
\* rejection of the awaited Deferred.
C27_SuspendsAtDeferreds ==
    (mode = "coroutine" /\ stream # "cancelled") =>
        /\ (stream = "readable" /\ awaiting # Undefined) =>
               /\ pumpRuns = awaits
               /\ WalkTo(awaits).n = awaits
               /\ hasThen(awaiting) /\ ~hasIterator(awaiting)
        /\ stream = "closed" =>
               /\ awaits = Walk.n
               /\ pumpRuns = Walk.n + 1
        /\ stream = "errored" =>
               /\ awaits = Walk.n
               /\ pumpRuns = IF thrown = "rejected" THEN awaits ELSE awaits + 1

\* a render done that met two Deferreds, the second in the array the first
\* resolved to, between strings and nested sequences
C27_Witness ==
    /\ mode = "coroutine"
    /\ stream = "closed"
    /\ gens[root].args = <<Promise(1)>>
    /\ promises[1].val = Arr(<<Promise(2), Str(<<"x">>)>>)
    /\ Walk.n = 2
    /\ awaits = 2
    /\ pumpRuns = 3

----------------------------------------------------------------------------
(* C28 *)

\* C28: as long as the Deferred the renderer is suspended on is pending, no
\* step sends a chunk, goes on with the traversal, runs pump, or closes or
\* errors the stream: the renderer stays suspended on this Deferred.
C28_PendingKeepsSuspended ==
    [][ ( /\ mode = "coroutine"
          /\ awaiting # Undefined
          /\ promiseOf(awaiting).state = "pending" ) =>
        ( /\ chunks' = chunks
          /\ gens' = gens /\ stack' = stack
          /\ awaiting' = awaiting
          /\ pumpRuns' = pumpRuns
          /\ stream' \notin {"closed", "errored"} ) ]_vars

\* suspended on a Deferred resolved with a second Deferred that is pending,
\* while text follows in the template
C28_Witness ==
    /\ mode = "coroutine"
    /\ stream = "readable"
    /\ awaiting = Promise(1)
    /\ promises[1] = [state |-> "pending", val |-> Promise(2)]
    /\ promises[2].state = "pending"
    /\ gens[root].site = "p"
    /\ chunks = << <<"<", "p", ">">> >>

----------------------------------------------------------------------------
(* C29 *)

\* what was sent is the beginning of the text of the tree
SentIsPrefix == mode = "coroutine" => IsPrefix(joined(chunks), Walk.out)

\* C29: in every state of a render, running, suspended, done, failed or
\* cancelled, the chunks sent so far join to a prefix of the depth-first
\* text of the tree, and no step takes back or changes a chunk that was
\* sent: chunks are only added after the ones sent.
C29_PrefixAlways ==
    /\ []SentIsPrefix
    /\ [][mode = "coroutine" => IsPrefix(chunks, chunks')]_vars

\* a render its consumer cancelled after two chunks: the renderer has
\* stopped and the text that follows was not sent
C29_Witness ==
    /\ mode = "coroutine"
    /\ stream = "cancelled"
    /\ awaiting = Undefined
    /\ Len(chunks) = 2
    /\ joined(chunks) # Walk.out
    /\ IsPrefix(joined(chunks), Walk.out)

----------------------------------------------------------------------------
(* C30 *)

\* the body the rendered template has when its render runs alone: the
\* Producer of its call site is compiled from its own values
AloneBody ==
    IF impl = "compiled"
    THEN compile(templateParts(gens[root].site), gens[root].args).body
    ELSE gens[root].body

\* the text of the rendered template with that body, from statement pc on
RECURSIVE Alone(_, _)
Alone(pc, acc) ==
    IF Blocked(acc) \/ pc > Len(AloneBody) THEN acc
    ELSE LET st == AloneBody[pc]
             v  == IF st.arg \in 1..Len(gens[root].args) THEN gens[root].args[st.arg]
                   ELSE Undefined
             a  == CASE st.op = "yield" -> Emit(acc, TermsText(root, st.terms))
                     [] st.op = "star"  -> Traverse(v, acc)
                     [] st.op = "arg"   -> Fragment(v, acc)
                     [] st.op = "switch" ->
                          IF hasIterator(v) /\ ~isString(v) THEN Traverse(v, acc)
                          ELSE IF hasThen(v) THEN Fragment(v, acc)
                          ELSE Emit(acc, escape(String(v)))
         IN  Alone(pc + 1, a)

\* C30: a render that shares the Producer cache with the templates of
\* another render sends what it sends when it runs alone: when the render of
\* a template that nests no other template is done, its chunks are the text
\* of the template with the Producer compiled from its own values.
C30_SharedCacheNoInterference ==
    ( /\ mode = "coroutine" /\ stream = "closed"
      /\ \A i \in 1..Len(gens[root].args) : gens[root].args[i].k # "generator" ) =>
        joined(chunks) = Alone(1, Walked(<<>>, {root})).out

----------------------------------------------------------------------------
(* C31 *)

\* C31: no step changes or removes the Producer cached for a call site, and
\* a template built at a call site that has a Producer is an invocation of
\* this very Producer, whatever was compiled since it was cached.
C31_CacheOnlyGrows ==
    [][ \A site \in Sites :
          templateCache[site] # NoProducer =>
              /\ templateCache'[site] = templateCache[site]
              /\ ( /\ Len(gens') = Len(gens) + 1
                   /\ gens'[Len(gens')].site = site ) =>
                     /\ gens'[Len(gens')].body = templateCache[site].body
                     /\ gens'[Len(gens')].nparams = templateCache[site].nparams ]_vars

\* two templates of one call site, built with values of different kinds from
\* the Producer compiled once, and a compile of another call site
C31_Witness ==
    /\ impl = "compiled"
    /\ Len(gens) = 2
    /\ gens[1].site = "p" /\ gens[2].site = "p"
    /\ Len(gens[1].args) = 1 /\ Len(gens[2].args) = 1
    /\ KindOf(gens[1].args[1]) # KindOf(gens[2].args[1])
    /\ gens[2].body = templateCache["p"].body
    /\ compileRuns["p"] = 1
    /\ compileRuns["dir"] = 1

----------------------------------------------------------------------------
(* C32 *)

\* C32: a template that was traversed to its end gives no fragment when it
\* is traversed again: a second [...template] of the template spread is
\* empty and changes nothing, and a template interpolated at the two slots
\* of the template spread gave its fragments at the first slot only.
C32_SinglePass ==
    (spread.of # 0 /\ spread.err = "") =>
        /\ gens[spread.of].done
        /\ spreadLoop(gens, spread.of, <<>>) = [items |-> <<>>, err |-> "", G |-> gens]
        /\ \A h \in 1..Len(gens) :
              ( /\ gens[spread.of].args = <<Gen(h), Gen(h)>>
                /\ Handling(spread.of, 1) = "sequence"
                /\ Handling(spread.of, 2) = "sequence" ) =>
                  /\ gens[h].done
                  /\ spread.items =
                        <<Str(<<"A">>)>>
                        \o [i \in 1..Len(gens[h].yielded) |-> gens[h].yielded[i].val]
                        \o <<Str(<<"&">>), Str(<<"C">>)>>

\* a template spread with the same template at its two slots
C32_Witness ==
    /\ spread.of = 2 /\ spread.err = ""
    /\ gens[2].site = "ab"
    /\ gens[2].args = <<Gen(1), Gen(1)>>
    /\ Handling(2, 1) = "sequence"
    /\ Len(gens[1].yielded) = 3
    /\ Len(spread.items) = 6

----------------------------------------------------------------------------
(* C33 *)

\* a generator object nothing was pulled from
Untouched(o) ==
    o.pc = 1 /\ o.sub = NoIterator /\ ~o.done /\ o.yielded = <<>>

\* while the renderer is suspended on a Deferred, the templates the
\* traversal has not entered before this Deferred are untouched
LaterUntouched ==
    (mode = "coroutine" /\ awaiting # Undefined) =>
        \A g \in 1..Len(gens) :
            g \notin WalkTo(awaits).used => Untouched(gens[g])

\* C33: a call of html pulls nothing: the template it returns is untouched
\* and the templates it was given are as they were; and the renderer pulls
\* from a nested template only when the traversal has reached its slot, so
\* that while it is suspended on a Deferred every template placed after the
\* Deferred is untouched.
C33_LazyFlattening ==
    /\ []LaterUntouched
    /\ [][ Len(gens') = Len(gens) + 1 =>
             /\ Untouched(gens'[Len(gens')])
             /\ \A g \in 1..Len(gens) : gens'[g] = gens[g] ]_vars

\* suspended on a fulfilled Deferred that is followed by a template
C33_Witness ==
    /\ mode = "coroutine"
    /\ stream = "readable"
    /\ awaiting = Promise(2)
    /\ promises[2].state = "fulfilled"
    /\ gens[root].args = <<Promise(2), Gen(1)>>
    /\ Handling(root, 2) = "sequence"
    /\ Untouched(gens[1])
    /\ chunks = << <<"A">> >>

----------------------------------------------------------------------------
(* C34 *)

\* the flattened fragments with every run of strings made one string: the
\* text between the fragments that are no strings, and these at their places
RECURSIVE Fuse(_)
Fuse(items) ==
    IF Len(items) < 2 THEN items
    ELSE IF isString(items[1]) /\ isString(items[2])
    THEN Fuse(<<Str(items[1].s \o items[2].s)>> \o SubSeq(items, 3, Len(items)))
    ELSE <<items[1]>> \o Fuse(Tail(items))

\* invocation g and the invocation that compiled its Producer were given a
\* value at each slot, and g's are of the kinds the Producer was compiled for
SameKinds(g) ==
    /\ Len(gens[g].args) = slots(gens[g].site)
    /\ gens[g].nparams = slots(gens[g].site)
    /\ \A i \in 1..Len(gens[g].args) : Handling(g, i) = KindOf(gens[g].args[i])

\* C34: a template of the compiled html that was given values of the kinds
\* its call site was compiled for flattens as the template the generator
\* html returns for the same call site and values: both fail or none, and
\* their fragments are the same text with the same Deferreds at the same
\* places.
C34_CompiledEquivalent ==
    impl = "compiled" =>
        \A g \in 1..Len(gens) :
            (Untouched(gens[g]) /\ SameKinds(g)) =>
                LET compiled  == spreadLoop(gens, g, <<>>)
                    generator == spreadLoop(
                                   [gens EXCEPT ![g] = html(gens[g].site, gens[g].args)],
                                   g, <<>>)
                IN  /\ compiled.err = generator.err
                    /\ Fuse(compiled.items) = Fuse(generator.items)

----------------------------------------------------------------------------
(* C35 *)

\* C35: the render of part 1 and the buffered render of part 2 deliver the
\* same text and fail on the same trees: whichever of the two runs, a closed
\* stream was given the whole depth-first text of the tree with the contents
\* of its Deferreds, an errored stream is the one of a tree whose walk
\* fails, and what was delivered so far is the beginning of that text.
C35_RenderersEquivalent ==
    (mode \in {"async", "coroutine"} /\ stream # "cancelled") =>
        /\ stream = "closed" => (~Blocked(Walk) /\ joined(chunks) = Walk.out)
        /\ stream = "errored" => (Walk.err /\ IsPrefix(joined(chunks), Walk.out))
        /\ stream = "readable" => IsPrefix(joined(chunks), Walk.out)

----------------------------------------------------------------------------
(* C36 *)

\* C36: once the buffered render has signalled completion or failure to
\* its stream, whatever happens next (a promise is settled late), the
\* stream keeps its state and its chunks, pump does not run
\* again and awaits nothing, and no generator is advanced.
C36_TerminalAbsorbing ==
    [][ Over =>
          /\ stream' = stream /\ chunks' = chunks /\ thrown' = thrown
          /\ pumpRuns' = pumpRuns /\ awaits' = awaits /\ awaiting' = awaiting
          /\ gens' = gens /\ stack' = stack /\ buffer' = buffer ]_vars

\* a render that failed on the rejected promise of its first slot and never
\* came to the promise of its second slot, which is fulfilled
C36_Witness ==
    /\ mode = "coroutine"
    /\ stream = "errored"
    /\ thrown = "rejected"
    /\ gens[root].site = "ab"
    /\ gens[root].args = <<Gen(1), Promise(2)>>
    /\ gens[1].args = <<Promise(1)>>
    /\ promises[1].state = "rejected"
    /\ promises[2].state = "fulfilled"
    /\ awaits = 1
    /\ ~gens[root].done
    /\ chunks # <<>>

=============================================================================
